---- MODULE Spec2Model ----
(***************************************************************************)
(* Model of funciones_creditos.py: the delinquency-aging engine of         *)
(* matriz-cobranza.  Every function of the module is an operator over the  *)
(* two input tables (creditos, creditos_pagos) and the reference date.     *)
(*                                                                         *)
(* Representation                                                          *)
(*   - a date (pd.Timestamp at midnight) is the integer number of days     *)
(*     since 1970-01-01; year/month/day are computed from it, as pandas    *)
(*     does from its epoch count;                                          *)
(*   - a nullable value (NaN / NaT / pd.NA) is the empty tuple NA, and a   *)
(*     defined value v is the one-element tuple <<v>>;                     *)
(*   - amounts are integers; 0.98 * x is compared exactly (98*x vs 100*y); *)
(*   - creditos is a function from credit id (the DataFrame index) to a     *)
(*     record of its columns; creditos_pagos is the sequence of ledger     *)
(*     rows in their row order.                                            *)
(***************************************************************************)
EXTENDS Integers, Sequences, FiniteSets, TLC

VARIABLES creditos, creditos_pagos, series, fecha, llamada, excepcion, retorno

vars == <<creditos, creditos_pagos, series, fecha, llamada, excepcion, retorno>>

----------------------------------------------------------------------------
(* Nullable values *)

NA == <<>>

Some(v) == <<v>>

notnull(x) == x # NA

Val(x) == x[1]

Max(a, b) == IF a >= b THEN a ELSE b

Min(a, b) == IF a <= b THEN a ELSE b

\* floor(a / b) for b # 0
FloorDiv(a, b) == IF b > 0 THEN a \div b ELSE (0 - a) \div (0 - b)

----------------------------------------------------------------------------
(* Calendar: pd.Timestamp arithmetic on the proleptic Gregorian calendar *)

\* pd.Timestamp(year=y, month=m, day=d) as days since 1970-01-01
Fecha(y, m, d) ==
    LET yy  == IF m <= 2 THEN y - 1 ELSE y
        era == yy \div 400
        yoe == yy - era * 400
        mp  == IF m > 2 THEN m - 3 ELSE m + 9
        doy == (153 * mp + 2) \div 5 + d - 1
        doe == yoe * 365 + yoe \div 4 - yoe \div 100 + doy
    IN  era * 146097 + doe - 719468

\* <<year, month, day>> of a date
Civil(f) ==
    LET z   == f + 719468
        era == z \div 146097
        doe == z - era * 146097
        yoe == (doe - doe \div 1460 + doe \div 36524 - doe \div 146096) \div 365
        doy == doe - (365 * yoe + yoe \div 4 - yoe \div 100)
        mp  == (5 * doy + 2) \div 153
        d   == doy - (153 * mp + 2) \div 5 + 1
        m   == IF mp < 10 THEN mp + 3 ELSE mp - 9
        y   == yoe + era * 400 + (IF m <= 2 THEN 1 ELSE 0)
    IN  <<y, m, d>>

Year(f) == Civil(f)[1]

Month(f) == Civil(f)[2]

Day(f) == Civil(f)[3]

\* fecha.to_period('M').start_time
InicioMes(f) == Fecha(Year(f), Month(f), 1)

\* (fecha.to_period('M') + 1).start_time
InicioMesSiguiente(f) ==
    IF Month(f) = 12 THEN Fecha(Year(f) + 1, 1, 1)
                     ELSE Fecha(Year(f), Month(f) + 1, 1)

\* fecha + pd.offsets.MonthEnd(0): the last day of fecha's month
MonthEnd0(f) == InicioMesSiguiente(f) - 1

----------------------------------------------------------------------------
(* Schedule calculator *)

\* clip without its lower bound
clip_sin_inferior(x, lo, hi) == Min(x, hi)

\* Series.clip(lower=lo, upper=hi) with a Series bound: the lower bound is
\* applied first, then the upper one
clip(x, lo, hi) == Min(Max(x, lo), hi)

es_ultimo_dia_mes(f) == f = MonthEnd0(f)

\* meses_transcurridos with the month-end test inverted (the `not` dropped)
meses_transcurridos_fin_de_mes(c, f) ==
    LET ref == Civil(f)
        pp  == Civil(c.fecha_primer_pago)
    IN  (ref[1] - pp[1]) * 12
        + (ref[2] - pp[2])
        - (IF es_ultimo_dia_mes(f) /\ ref[3] < pp[3] THEN 1 ELSE 0)
        + 1

\* the month difference of lines 27-32, before clipping
meses_transcurridos(c, f) ==
    LET ref == Civil(f)
        pp  == Civil(c.fecha_primer_pago)
    IN  (ref[1] - pp[1]) * 12
        + (ref[2] - pp[2])
        - (IF (~es_ultimo_dia_mes(f)) /\ ref[3] < pp[3] THEN 1 ELSE 0)
        + 1

pagos_requeridos(cr, f) ==
    [i \in DOMAIN cr |->
        IF cr[i].fecha_apertura <= f
        THEN Some(clip(meses_transcurridos(cr[i], f), 0, cr[i].plazo))
        ELSE NA]

monto_requerido(cr, pagos_req) ==
    [i \in DOMAIN cr |->
        LET pr == pagos_req[i]
        IN  IF notnull(pr) THEN Some(cr[i].cuota_mensual * Val(pr)) ELSE NA]

----------------------------------------------------------------------------
(* Ledger aggregator *)

\* creditos_pagos[creditos_pagos['fecha_pago'] <= fecha], rows of credit i,
\* in ledger row order (one group of the groupby('id_credito'))
pagos_filtrados(cp, i, f) ==
    SelectSeq(cp, LAMBDA p : p.fecha_pago <= f /\ p.id_credito = i)

RECURSIVE SumaMontos(_)
SumaMontos(s) ==
    IF s = <<>> THEN 0 ELSE s[1].monto_pago + SumaMontos(Tail(s))

\* groupby(...).last(): the last row of the group
UltimaFila(s) == s[Len(s)]

monto_pagado(cr, cp, f) ==
    [i \in DOMAIN cr |->
        LET g   == pagos_filtrados(cp, i, f)
            mp  == IF g = <<>> THEN NA ELSE Some(SumaMontos(g))
        IN  IF f < cr[i].fecha_apertura \/ notnull(mp) THEN mp ELSE Some(0)]

fecha_ultimo_pago(cr, cp, f) ==
    [i \in DOMAIN cr |->
        LET g == pagos_filtrados(cp, i, f)
        IN  IF g = <<>> THEN NA ELSE Some(UltimaFila(g).fecha_pago)]

saldo(cr, cp, f) ==
    [i \in DOMAIN cr |->
        LET g == pagos_filtrados(cp, i, f)
        IN  IF g = <<>> THEN cr[i].saldo_inicial ELSE UltimaFila(g).saldo_posterior]

----------------------------------------------------------------------------
(* Status and aging classifier *)

\* the three masked assignments of lines 110-112, the later one winning
estatus(monto_req, monto_pag) ==
    [i \in DOMAIN monto_req |->
        LET mr == monto_req[i]
            mp == monto_pag[i]
        IN  IF ~(notnull(mr) /\ notnull(mp)) THEN NA
            ELSE LET r == Val(mr)
                     p == Val(mp)
                 IN  IF p > r THEN Some("Adelantado")
                     ELSE IF 98 * r <= 100 * p /\ p <= r THEN Some("Al Corriente")
                     ELSE IF 100 * p < 98 * r THEN Some("Atrasado")
                     ELSE NA]

\* dias_sin_pagar counting both end days when no payment was ever recorded
dias_sin_pagar_inclusivo(cr, fecha_ult_pago, f) ==
    [i \in DOMAIN cr |->
        LET ult  == fecha_ult_pago[i]
            dias == IF notnull(ult) THEN Some(Max(f - Val(ult) - 30, 0)) ELSE NA
        IN  IF dias = NA /\ cr[i].fecha_apertura <= f
            THEN Some(f - cr[i].fecha_apertura + 1)
            ELSE dias]

dias_sin_pagar(cr, fecha_ult_pago, f) ==
    [i \in DOMAIN cr |->
        LET ult  == fecha_ult_pago[i]
            dias == IF notnull(ult) THEN Some(Max(f - Val(ult) - 30, 0)) ELSE NA
        IN  IF dias = NA /\ cr[i].fecha_apertura <= f
            THEN Some(f - cr[i].fecha_apertura)
            ELSE dias]

\* np.round(monto / cuota + 1e-10, 0) on exact amounts: the nearest integer,
\* an exact half going up
pagos_realizados(monto, cuota) == FloorDiv(2 * monto + cuota, 2 * cuota)

atraso_pagos(cr, pagos_req, monto_pag) ==
    [i \in DOMAIN cr |->
        LET pr == pagos_req[i]
            mp == monto_pag[i]
        IN  IF notnull(pr) /\ notnull(mp)
            THEN Some(Val(pr) - pagos_realizados(Val(mp), cr[i].cuota_mensual))
            ELSE NA]

\* comparisons of a nullable number: NaN compares False
gt(x, n) == notnull(x) /\ Val(x) > n

ge(x, n) == notnull(x) /\ Val(x) >= n

le(x, n) == notnull(x) /\ Val(x) <= n

\* lines 216-232: the cascade on days alone
cascada_dias(dias) ==
    IF gt(dias, 360) THEN "PAR 360"
    ELSE IF gt(dias, 270) THEN "PAR 270"
    ELSE IF gt(dias, 180) THEN "PAR 180"
    ELSE IF gt(dias, 150) THEN "PAR 150"
    ELSE IF gt(dias, 120) THEN "PAR 120"
    ELSE IF gt(dias, 90) THEN "PAR 90"
    ELSE IF gt(dias, 60) THEN "PAR 60"
    ELSE IF gt(dias, 30) THEN "PAR 30"
    ELSE "PAR 1"

\* cascada_dias_atraso with the PAR 90 arrears threshold off by one (> 4)
cascada_dias_atraso_umbral(dias, atraso) ==
    IF gt(dias, 360) \/ ge(atraso, 13) THEN "PAR 360"
    ELSE IF gt(dias, 270) \/ ge(atraso, 10) THEN "PAR 270"
    ELSE IF gt(dias, 180) \/ ge(atraso, 7) THEN "PAR 180"
    ELSE IF gt(dias, 150) \/ ge(atraso, 6) THEN "PAR 150"
    ELSE IF gt(dias, 120) \/ ge(atraso, 5) THEN "PAR 120"
    ELSE IF gt(dias, 90) \/ gt(atraso, 4) THEN "PAR 90"
    ELSE IF gt(dias, 60) \/ ge(atraso, 3) THEN "PAR 60"
    ELSE IF gt(dias, 30) \/ ge(atraso, 2) THEN "PAR 30"
    ELSE "PAR 1"

\* lines 234-250: the cascade on days or installments in arrears
cascada_dias_atraso(dias, atraso) ==
    IF gt(dias, 360) \/ ge(atraso, 13) THEN "PAR 360"
    ELSE IF gt(dias, 270) \/ ge(atraso, 10) THEN "PAR 270"
    ELSE IF gt(dias, 180) \/ ge(atraso, 7) THEN "PAR 180"
    ELSE IF gt(dias, 150) \/ ge(atraso, 6) THEN "PAR 150"
    ELSE IF gt(dias, 120) \/ ge(atraso, 5) THEN "PAR 120"
    ELSE IF gt(dias, 90) \/ ge(atraso, 4) THEN "PAR 90"
    ELSE IF gt(dias, 60) \/ ge(atraso, 3) THEN "PAR 60"
    ELSE IF gt(dias, 30) \/ ge(atraso, 2) THEN "PAR 30"
    ELSE "PAR 1"

\* logica_paridad without the check of the opening date (lines 211-212)
logica_paridad_sin_apertura(row, f) ==
    IF le(row.atraso_pagos, 0)
    THEN IF row.estatus = NA THEN "TypeError"
         ELSE IF Val(row.estatus) # "Atrasado" THEN "Al Corriente"
         ELSE cascada_dias(row.dias_sin_pagar)
    ELSE cascada_dias_atraso(row.dias_sin_pagar, row.atraso_pagos)

\* logica_paridad taking the caught-up branch up to one installment in arrears
logica_paridad_un_atraso(row, f) ==
    IF f < row.fecha_apertura THEN "Al Corriente"
    ELSE IF le(row.atraso_pagos, 1)
         THEN IF row.estatus = NA THEN "TypeError"
              ELSE IF Val(row.estatus) # "Atrasado" THEN "Al Corriente"
              ELSE cascada_dias(row.dias_sin_pagar)
         ELSE cascada_dias_atraso(row.dias_sin_pagar, row.atraso_pagos)

\* row: [fecha_apertura, estatus, dias_sin_pagar, atraso_pagos].  With
\* atraso_pagos <= 0 and estatus pd.NA, `if pd.NA != "Atrasado"` raises.
logica_paridad(row, f) ==
    IF f < row.fecha_apertura THEN "Al Corriente"
    ELSE IF le(row.atraso_pagos, 0)
         THEN IF row.estatus = NA THEN "TypeError"
              ELSE IF Val(row.estatus) # "Atrasado" THEN "Al Corriente"
              ELSE cascada_dias(row.dias_sin_pagar)
         ELSE cascada_dias_atraso(row.dias_sin_pagar, row.atraso_pagos)

tipo_paridad(cr, estatus_series, dias_sin_pagar_series, atraso_series, f) ==
    [i \in DOMAIN cr |->
        logica_paridad([fecha_apertura |-> cr[i].fecha_apertura,
                        estatus        |-> estatus_series[i],
                        dias_sin_pagar |-> dias_sin_pagar_series[i],
                        atraso_pagos   |-> atraso_series[i]], f)]

----------------------------------------------------------------------------
(* Snapshot orchestrator *)

\* the local variables of paridad(creditos, creditos_pagos, fecha)
paridad_locales(cr, cp, f) ==
    LET pagos_req      == pagos_requeridos(cr, f)
        monto_req      == monto_requerido(cr, pagos_req)
        monto_pag      == monto_pagado(cr, cp, f)
        estatus_series == estatus(monto_req, monto_pag)
        fecha_ult_pago == fecha_ultimo_pago(cr, cp, f)
        dias_sin_pago  == dias_sin_pagar(cr, fecha_ult_pago, f)
        atraso_series  == atraso_pagos(cr, pagos_req, monto_pag)
    IN  [fecha          |-> Some(f),
         pagos_req      |-> pagos_req,
         monto_req      |-> monto_req,
         monto_pag      |-> monto_pag,
         estatus_series |-> estatus_series,
         fecha_ult_pago |-> fecha_ult_pago,
         dias_sin_pago  |-> dias_sin_pago,
         atraso_series  |-> atraso_series]

\* the value paridad returns, from its locals l (line 317)
paridad_retorno(cr, l) ==
    tipo_paridad(cr, l.estatus_series, l.dias_sin_pago, l.atraso_series, Val(l.fecha))

\* fecha.to_period('M').start_time - pd.Timedelta(days=1)
fecha_ajustada(f) == InicioMes(f) - 1

saldo_inicial(cr, cp, f) == saldo(cr, cp, fecha_ajustada(f))

----------------------------------------------------------------------------
(* Portfolio window filter *)

fecha_maxima == Fecha(2200, 12, 31)

\* considerar keeping a credit through the day of its close date (<=)
considerar_cierre_inclusivo(cr, f) ==
    LET fecha_actual == InicioMes(f)
    IN  {i \in DOMAIN cr :
            LET fecha_inicial == InicioMesSiguiente(cr[i].fecha_apertura)
                fecha_final   == IF notnull(cr[i].fecha_cierre)
                                 THEN Val(cr[i].fecha_cierre) ELSE fecha_maxima
            IN  fecha_inicial <= fecha_actual /\ fecha_actual <= fecha_final}

\* the index of the rows considerar keeps
considerar(cr, f) ==
    LET fecha_actual == InicioMes(f)
    IN  {i \in DOMAIN cr :
            LET fecha_inicial == InicioMesSiguiente(cr[i].fecha_apertura)
                fecha_final   == IF notnull(cr[i].fecha_cierre)
                                 THEN Val(cr[i].fecha_cierre) ELSE fecha_maxima
            IN  fecha_inicial <= fecha_actual /\ fecha_actual < fecha_final}

----------------------------------------------------------------------------
(* State: the two input tables, and the last call made on them.            *)
(*   creditos, creditos_pagos  the input tables (never modified)           *)
(*   fecha      the reference date passed to the last call                 *)
(*   llamada    the function last called ("ninguna" before any call)       *)
(*   series     the per-credit series the call worked on: the locals of    *)
(*              paridad, or the series handed to tipo_paridad              *)
(*   excepcion  the exception the call raised ("ninguna" if it returned)   *)
(*   retorno    the value the call returned                                *)

\* the columns of one row of creditos
Credito(apertura, primer_pago, plazo, cuota, saldo_ini, cierre) ==
    [fecha_apertura    |-> apertura,
     fecha_primer_pago |-> primer_pago,
     plazo             |-> plazo,
     cuota_mensual     |-> cuota,
     saldo_inicial     |-> saldo_ini,
     fecha_cierre      |-> cierre]

\* the columns of one row of creditos_pagos
Pago(id, f, monto, saldo_post) ==
    [id_credito      |-> id,
     fecha_pago      |-> f,
     monto_pago      |-> monto,
     saldo_posterior |-> saldo_post]

\* every ledger of at most n rows drawn from P
Libros(P, n) == UNION {[1..k -> P] : k \in 0..n}

Nulos(cr) == [i \in DOMAIN cr |-> NA]

SinSeries(cr) ==
    [fecha          |-> NA,
     pagos_req      |-> Nulos(cr),
     monto_req      |-> Nulos(cr),
     monto_pag      |-> Nulos(cr),
     estatus_series |-> Nulos(cr),
     fecha_ult_pago |-> Nulos(cr),
     dias_sin_pago  |-> Nulos(cr),
     atraso_series  |-> Nulos(cr)]

\* no call made yet
SinLlamada ==
    /\ fecha = 0
    /\ llamada = "ninguna"
    /\ excepcion = "ninguna"
    /\ retorno = <<>>

\* df.apply raises what logica_paridad raises on any row
Excepcion(r) ==
    IF \E i \in DOMAIN r : r[i] = "TypeError" THEN "TypeError" ELSE "ninguna"

----------------------------------------------------------------------------
(* The calls *)

TipoParidad(f) ==
    LET r == tipo_paridad(creditos, series.estatus_series, series.dias_sin_pago,
                          series.atraso_series, f)
    IN  /\ fecha' = f
        /\ llamada' = "tipo_paridad"
        /\ excepcion' = Excepcion(r)
        /\ retorno' = IF Excepcion(r) = "ninguna" THEN r ELSE <<>>
        /\ UNCHANGED <<creditos, creditos_pagos, series>>

\* paridad(creditos, creditos_pagos, f)
Paridad(f) ==
    /\ fecha' = f
    /\ llamada' = "paridad"
    /\ series' = paridad_locales(creditos, creditos_pagos, f)
    /\ LET r == paridad_retorno(creditos, series')
       IN  /\ excepcion' = Excepcion(r)
           /\ retorno' = IF Excepcion(r) = "ninguna" THEN r ELSE <<>>
    /\ UNCHANGED <<creditos, creditos_pagos>>

\* paridad_inicial(creditos, creditos_pagos, f): paridad at the adjusted date
ParidadInicial(f) ==
    /\ fecha' = f
    /\ llamada' = "paridad_inicial"
    /\ series' = paridad_locales(creditos, creditos_pagos, fecha_ajustada(f))
    /\ LET r == paridad_retorno(creditos, series')
       IN  /\ excepcion' = Excepcion(r)
           /\ retorno' = IF Excepcion(r) = "ninguna" THEN r ELSE <<>>
    /\ UNCHANGED <<creditos, creditos_pagos>>

Saldo(f) ==
    /\ fecha' = f
    /\ llamada' = "saldo"
    /\ series' = SinSeries(creditos)
    /\ excepcion' = "ninguna"
    /\ retorno' = saldo(creditos, creditos_pagos, f)
    /\ UNCHANGED <<creditos, creditos_pagos>>

SaldoInicial(f) ==
    /\ fecha' = f
    /\ llamada' = "saldo_inicial"
    /\ series' = SinSeries(creditos)
    /\ excepcion' = "ninguna"
    /\ retorno' = saldo_inicial(creditos, creditos_pagos, f)
    /\ UNCHANGED <<creditos, creditos_pagos>>

Considerar(f) ==
    /\ fecha' = f
    /\ llamada' = "considerar"
    /\ series' = SinSeries(creditos)
    /\ excepcion' = "ninguna"
    /\ retorno' = considerar(creditos, f)
    /\ UNCHANGED <<creditos, creditos_pagos>>

----------------------------------------------------------------------------
(* SpecClasificador: tipo_paridad called once on series drawn from every   *)
(* status, every day count up to MaxDias and every arrears count within    *)
(* MaxAtraso, at a reference date before, on and after the opening date.   *)

MaxDias == 361

MaxAtraso == 13

EstatusPosibles == {Some("Atrasado"), Some("Al Corriente"), Some("Adelantado"), NA}

AperturaClasificador == Fecha(2024, 3, 1)

FechasClasificador ==
    {AperturaClasificador - 1, AperturaClasificador, AperturaClasificador + 1}

InitClasificador ==
    /\ creditos = [i \in {1} |->
                     Credito(AperturaClasificador, AperturaClasificador, 12, 1000, 5000, NA)]
    /\ creditos_pagos = <<>>
    /\ \E e \in EstatusPosibles, d \in 0..MaxDias, a \in (0 - MaxAtraso)..MaxAtraso :
          series = [SinSeries(creditos) EXCEPT !.estatus_series = <<e>>,
                                               !.dias_sin_pago  = <<Some(d)>>,
                                               !.atraso_series  = <<Some(a)>>]
    /\ SinLlamada

NextClasificador ==
    /\ llamada = "ninguna"
    /\ \E f \in FechasClasificador : TipoParidad(f)

SpecClasificador == InitClasificador /\ [][NextClasificador]_vars

\* The threshold table of the specification, most severe row first
TablaPAR ==
    << [bucket |-> "PAR 360", dias |-> 360, atraso |-> 13],
       [bucket |-> "PAR 270", dias |-> 270, atraso |-> 10],
       [bucket |-> "PAR 180", dias |-> 180, atraso |-> 7],
       [bucket |-> "PAR 150", dias |-> 150, atraso |-> 6],
       [bucket |-> "PAR 120", dias |-> 120, atraso |-> 5],
       [bucket |-> "PAR 90",  dias |-> 90,  atraso |-> 4],
       [bucket |-> "PAR 60",  dias |-> 60,  atraso |-> 3],
       [bucket |-> "PAR 30",  dias |-> 30,  atraso |-> 2] >>

\* The bucket by the specification's rules: Current when caught up and not
\* delinquent, else the first matching row of the table, else PAR 1
BucketSegunTabla(est, dias, atraso) ==
    IF atraso <= 0 /\ est # "Atrasado" THEN "Al Corriente"
    ELSE LET filas == {k \in 1..Len(TablaPAR) :
                          dias > TablaPAR[k].dias \/ atraso >= TablaPAR[k].atraso}
         IN  IF filas = {} THEN "PAR 1"
             ELSE TablaPAR[CHOOSE k \in filas : \A j \in filas : k <= j].bucket

\* credit i is opened at the reference date and its row has a status
FilaAbierta(i) ==
    /\ llamada = "tipo_paridad"
    /\ creditos[i].fecha_apertura <= fecha
    /\ notnull(series.estatus_series[i])

\* C1: for every opened credit, every status among Delinquent, Current and
\* Ahead, every days_without_payment >= 0 and every integer arrears_count,
\* tipo_paridad returns the bucket the specification's rules give: Current
\* if arrears_count <= 0 and the status is not Delinquent, otherwise the
\* first row from PAR 360 down to PAR 30 whose day or arrears threshold is
\* met, and PAR 1 if no row matches.
C1_BucketSegunTabla ==
    \A i \in DOMAIN creditos :
        FilaAbierta(i) =>
            /\ excepcion = "ninguna"
            /\ retorno[i] = BucketSegunTabla(Val(series.estatus_series[i]),
                                             Val(series.dias_sin_pago[i]),
                                             Val(series.atraso_series[i]))

\* a credit not delinquent by amount and with few unpaid days, placed in
\* PAR 90 by its four installments in arrears alone
C1_Witness ==
    /\ FilaAbierta(1)
    /\ Val(series.estatus_series[1]) = "Al Corriente"
    /\ Val(series.dias_sin_pago[1]) = 31
    /\ Val(series.atraso_series[1]) = 4
    /\ retorno[1] = "PAR 90"

\* C4 as stated: with days_without_payment = 0, arrears_count 2 gives PAR 30,
\* and arrears_count 1 gives PAR 1 if the status is Delinquent and Current
\* otherwise.
C4_Original ==
    \A i \in DOMAIN creditos :
        (FilaAbierta(i) /\ Val(series.dias_sin_pago[i]) = 0) =>
            /\ Val(series.atraso_series[i]) = 2 => retorno[i] = "PAR 30"
            /\ Val(series.atraso_series[i]) = 1 =>
                  retorno[i] = IF Val(series.estatus_series[i]) = "Atrasado"
                               THEN "PAR 1" ELSE "Al Corriente"

\* C4 (amended): with days_without_payment = 0, arrears_count 2 gives PAR 30
\* and arrears_count 1 gives PAR 1, whatever the payment status.
C4_UmbralAtraso ==
    \A i \in DOMAIN creditos :
        (FilaAbierta(i) /\ Val(series.dias_sin_pago[i]) = 0) =>
            /\ Val(series.atraso_series[i]) = 2 => retorno[i] = "PAR 30"
            /\ Val(series.atraso_series[i]) = 1 => retorno[i] = "PAR 1"

\* one installment in arrears, not delinquent by amount, no unpaid days: PAR 1
C4_Witness ==
    /\ FilaAbierta(1)
    /\ Val(series.estatus_series[1]) = "Al Corriente"
    /\ Val(series.dias_sin_pago[1]) = 0
    /\ Val(series.atraso_series[1]) = 1
    /\ retorno[1] = "PAR 1"

----------------------------------------------------------------------------
(* SpecLibro: two credits and every ledger of at most MaxPagosLibro rows,  *)
(* in every row order, with one call of paridad, paridad_inicial, saldo or *)
(* saldo_inicial at a date around the openings and the payments.           *)

MaxPagosLibro == 2

AperturasLibro == {Fecha(2024, 1, 25), Fecha(2024, 2, 10)}

FechasPagoLibro == {Fecha(2024, 1, 28), Fecha(2024, 2, 5), Fecha(2024, 2, 20)}

FechasLibro ==
    {Fecha(2024, 1, 26), Fecha(2024, 1, 31), Fecha(2024, 2, 5),
     Fecha(2024, 2, 15), Fecha(2024, 2, 29), Fecha(2024, 3, 3)}

PagosLibro ==
    {Pago(id, f, m[1], m[2]) :
        id \in {1, 2}, f \in FechasPagoLibro, m \in {<<400, 4600>>, <<1000, 4000>>}}

InitLibro ==
    /\ \E a \in AperturasLibro :
          creditos = [i \in {1, 2} |->
                        IF i = 1 THEN Credito(a, a + 31, 12, 1000, 5000, NA)
                        ELSE Credito(Fecha(2024, 1, 10), Fecha(2024, 2, 10),
                                     12, 1000, 5000, NA)]
    /\ creditos_pagos \in Libros(PagosLibro, MaxPagosLibro)
    /\ series = SinSeries(creditos)
    /\ SinLlamada

NextLibro ==
    /\ llamada = "ninguna"
    /\ \E f \in FechasLibro :
          \/ Paridad(f)
          \/ ParidadInicial(f)
          \/ Saldo(f)
          \/ SaldoInicial(f)

SpecLibro == InitLibro /\ [][NextLibro]_vars

\* the ledger rows of credit i dated on or before f
Califican(i, f) ==
    {k \in 1..Len(creditos_pagos) :
        creditos_pagos[k].id_credito = i /\ creditos_pagos[k].fecha_pago <= f}

RECURSIVE SumaDe(_)
SumaDe(K) ==
    IF K = {} THEN 0
    ELSE LET k == CHOOSE x \in K : TRUE
         IN  creditos_pagos[k].monto_pago + SumaDe(K \ {k})

\* C2: for every credit and every reference date before its open_date,
\* whatever the ledger holds (payments of that credit dated on or before the
\* reference date included), paridad returns 'Al Corriente' for that credit.
C2_NoAbiertoAlCorriente ==
    llamada = "paridad" =>
        \A i \in DOMAIN creditos :
            fecha < creditos[i].fecha_apertura =>
                excepcion = "ninguna" /\ retorno[i] = "Al Corriente"

\* paridad ran before credit 1 opened, on a ledger holding an earlier payment
\* of credit 1
C2_Witness ==
    /\ llamada = "paridad"
    /\ fecha < creditos[1].fecha_apertura
    /\ Califican(1, fecha) # {}
    /\ retorno[1] = "Al Corriente"

\* C5 as stated: paid_amount is undefined if as_of < open_date (even when the
\* ledger holds payments of the credit dated on or before as_of), else 0 if
\* no payment of the credit is dated on or before as_of, else the sum of
\* those payments.
C5_MontoPagadoTresValores ==
    llamada = "paridad" =>
        \A i \in DOMAIN creditos :
            series.monto_pag[i] =
                IF fecha < creditos[i].fecha_apertura THEN NA
                ELSE IF Califican(i, fecha) = {} THEN Some(0)
                ELSE Some(SumaDe(Califican(i, fecha)))

\* the latest payment date among the rows K, and the later-recorded row
\* carrying it
FechaMaxima(K) ==
    CHOOSE d \in {creditos_pagos[k].fecha_pago : k \in K} :
        \A k \in K : creditos_pagos[k].fecha_pago <= d

FilaMasReciente(K) ==
    CHOOSE k \in K :
        /\ creditos_pagos[k].fecha_pago = FechaMaxima(K)
        /\ \A j \in K : creditos_pagos[j].fecha_pago = FechaMaxima(K) => j <= k

\* C6 as stated: in any row order of the ledger, fecha_ultimo_pago is the
\* maximum payment date on or before as_of (undefined if none), and saldo is
\* the balance_after of the later-recorded payment carrying that date,
\* falling back to initial_balance.
C6_UltimoPagoCronologico ==
    /\ llamada = "paridad" =>
          \A i \in DOMAIN creditos :
              series.fecha_ult_pago[i] =
                  IF Califican(i, fecha) = {} THEN NA
                  ELSE Some(FechaMaxima(Califican(i, fecha)))
    /\ llamada = "saldo" =>
          \A i \in DOMAIN creditos :
              retorno[i] =
                  IF Califican(i, fecha) = {} THEN creditos[i].saldo_inicial
                  ELSE creditos_pagos[FilaMasReciente(Califican(i, fecha))].saldo_posterior

----------------------------------------------------------------------------
(* SpecValidacion: one credit whose terms may break the data model (a      *)
(* negative term, a non-positive installment, a close date before the      *)
(* opening) and a ledger that may reference a credit absent from the       *)
(* table, with one call of each public entry point.                        *)

AperturaValidacion == Fecha(2024, 1, 25)

InitValidacion ==
    /\ \E pl \in {0 - 1, 12}, cu \in {0 - 1000, 1000},
          ci \in {NA, Some(AperturaValidacion - 5), Some(AperturaValidacion + 40)} :
          creditos = [i \in {1} |->
                        Credito(AperturaValidacion, AperturaValidacion + 31,
                                pl, cu, 5000, ci)]
    /\ creditos_pagos \in
          Libros({Pago(id, f, 1000, 4000) :
                     id \in {1, 2}, f \in {Fecha(2024, 1, 28), Fecha(2024, 2, 20)}}, 1)
    /\ series = SinSeries(creditos)
    /\ SinLlamada

NextValidacion ==
    /\ llamada = "ninguna"
    /\ \E f \in FechasLibro :
          \/ Paridad(f)
          \/ ParidadInicial(f)
          \/ Saldo(f)
          \/ SaldoInicial(f)
          \/ Considerar(f)

SpecValidacion == InitValidacion /\ [][NextValidacion]_vars

\* the faults the specification lists as input-validation failures
EntradaInvalida ==
    \/ \E k \in 1..Len(creditos_pagos) :
          creditos_pagos[k].id_credito \notin DOMAIN creditos
    \/ \E i \in DOMAIN creditos :
          \/ creditos[i].plazo < 0
          \/ creditos[i].cuota_mensual <= 0
          \/ /\ notnull(creditos[i].fecha_cierre)
             /\ Val(creditos[i].fecha_cierre) < creditos[i].fecha_apertura

\* C8: every public entry point called on an input with a payment of an
\* absent credit, a negative term, a non-positive installment or a close
\* date before the opening ends in an input-validation failure and returns
\* no per-credit output.
C8_EntradaInvalidaRechazada ==
    (llamada # "ninguna" /\ EntradaInvalida) =>
        excepcion = "ValidationError" /\ retorno = <<>>

----------------------------------------------------------------------------
(* SpecCalendario: one credit with every term up to MaxPlazo and first     *)
(* payment dates on the 1st, 15th and last days of their months, and one   *)
(* call of paridad at every day of HorizonteCalendario days, which span    *)
(* the month ends of January to April 2024 (a leap February).              *)

MaxPlazo == 3

HorizonteCalendario == 110

InicioCalendario == Fecha(2024, 1, 10)

FechasCalendario == InicioCalendario..(InicioCalendario + HorizonteCalendario)

AperturasCalendario == {Fecha(2024, 1, 20), Fecha(2024, 2, 29)}

PrimerosPagos ==
    {Fecha(2024, 1, 31), Fecha(2024, 2, 15), Fecha(2024, 2, 29),
     Fecha(2024, 3, 1), Fecha(2024, 3, 30)}

InitCalendario ==
    /\ \E a \in AperturasCalendario, pp \in PrimerosPagos, pl \in 0..MaxPlazo :
          creditos = [i \in {1} |-> Credito(a, pp, pl, 1000, 5000, NA)]
    /\ creditos_pagos = <<>>
    /\ series = SinSeries(creditos)
    /\ SinLlamada

NextCalendario ==
    /\ llamada = "ninguna"
    /\ \E f \in FechasCalendario : Paridad(f)

SpecCalendario == InitCalendario /\ [][NextCalendario]_vars

\* C3: for every credit with first_payment_date >= open_date and term >= 0
\* and every reference date, pagos_requeridos is undefined exactly when the
\* reference date is before open_date, and otherwise an integer r with
\* 0 <= r <= term.
C3_PagosRequeridosAcotados ==
    llamada = "paridad" =>
        \A i \in DOMAIN creditos :
            (creditos[i].fecha_primer_pago >= creditos[i].fecha_apertura
             /\ creditos[i].plazo >= 0) =>
                /\ series.pagos_req[i] = NA <=> fecha < creditos[i].fecha_apertura
                /\ notnull(series.pagos_req[i]) =>
                      /\ 0 <= Val(series.pagos_req[i])
                      /\ Val(series.pagos_req[i]) <= creditos[i].plazo

\* a reference date before the month of the first payment, where the month
\* count is negative and the result is clipped to 0
C3_Witness ==
    /\ llamada = "paridad"
    /\ creditos[1].fecha_primer_pago >= creditos[1].fecha_apertura
    /\ creditos[1].fecha_apertura <= fecha
    /\ creditos[1].plazo > 0
    /\ meses_transcurridos(creditos[1], fecha) < 0
    /\ series.pagos_req[1] = Some(0)

----------------------------------------------------------------------------
(* SpecMonotonia: one credit and a fixed ledger, with paridad run again    *)
(* and again at a later reference date, up to MaxSalto days after the      *)
(* previous one (periodic reporting over the same tables).                 *)

MaxPagosMonotonia == 2

MaxSalto == 25

HorizonteMonotonia == 101

InicioMonotonia == Fecha(2024, 1, 20)

FechasMonotonia == InicioMonotonia..(InicioMonotonia + HorizonteMonotonia)

PagosMonotonia ==
    {Pago(1, Fecha(2024, 2, 10), 500, 4500),
     Pago(1, Fecha(2024, 2, 10), 1500, 3500),
     Pago(1, Fecha(2024, 3, 31), 1500, 3500)}

InitMonotonia ==
    /\ \E a \in {Fecha(2024, 1, 31)},
          pp \in {Fecha(2024, 1, 31), Fecha(2024, 2, 1), Fecha(2024, 2, 15),
                  Fecha(2024, 3, 31)},
          pl \in {2, 12} :
          creditos = [i \in {1} |-> Credito(a, pp, pl, 1000, 5000, NA)]
    /\ creditos_pagos \in Libros(PagosMonotonia, MaxPagosMonotonia)
    /\ series = SinSeries(creditos)
    /\ SinLlamada

NextMonotonia ==
    \E f \in FechasMonotonia :
        /\ llamada = "ninguna" \/ (fecha < f /\ f <= fecha + MaxSalto)
        /\ Paridad(f)

SpecMonotonia == InitMonotonia /\ [][NextMonotonia]_vars

\* no ledger row of credit i is dated in (d1, d2]
SinPagoEntre(i, d1, d2) ==
    \A k \in 1..Len(creditos_pagos) :
        creditos_pagos[k].id_credito = i =>
            ~(d1 < creditos_pagos[k].fecha_pago /\ creditos_pagos[k].fecha_pago <= d2)

\* C9: for a fixed credit and ledger and two reference dates d1 <= d2 with
\* open_date <= d1 and no payment of the credit dated in (d1, d2],
\* days_without_payment and arrears_count at d1 are at most those at d2
\* (steps across a month end included).
C9_Monotonia ==
    [][(llamada = "paridad" /\ llamada' = "paridad") =>
          \A i \in DOMAIN creditos :
              (creditos[i].fecha_apertura <= fecha /\ fecha <= fecha'
               /\ SinPagoEntre(i, fecha, fecha')) =>
                  /\ Val(series.dias_sin_pago[i]) <= Val(series'.dias_sin_pago[i])
                  /\ Val(series.atraso_series[i]) <= Val(series'.atraso_series[i])]_vars

\* paridad ran on a month end, where the month-end rule counted the month's
\* installment although the day of the first payment was not reached
C9_Witness ==
    /\ llamada = "paridad"
    /\ creditos[1].fecha_apertura <= fecha
    /\ es_ultimo_dia_mes(fecha)
    /\ Day(fecha) < Day(creditos[1].fecha_primer_pago)
    /\ Val(series.pagos_req[1]) = 2
    /\ creditos_pagos # <<>>
    /\ Val(series.atraso_series[1]) = 1

----------------------------------------------------------------------------
(* SpecEscenario: the credit of the specification's scenarios (opened      *)
(* 2023-01-01, first payment 2023-02-01, installment 1000), with no        *)
(* payment or one payment of 4000 on 2023-05-10, and one call of paridad   *)
(* at any day of the HorizonteEscenario days after the opening.            *)

HorizonteEscenario == 150

AperturaEscenario == Fecha(2023, 1, 1)

FechasEscenario == AperturaEscenario..(AperturaEscenario + HorizonteEscenario)

InitEscenario ==
    /\ \E pl \in {3, 12} :
          creditos = [i \in {1} |->
                        Credito(AperturaEscenario, Fecha(2023, 2, 1), pl, 1000, 12000, NA)]
    /\ creditos_pagos \in {<<>>, <<Pago(1, Fecha(2023, 5, 10), 4000, 8000)>>}
    /\ series = SinSeries(creditos)
    /\ SinLlamada

NextEscenario ==
    /\ llamada = "ninguna"
    /\ \E f \in FechasEscenario : Paridad(f)

SpecEscenario == InitEscenario /\ [][NextEscenario]_vars

\* paridad ran at 2023-05-15 on the scenario's credit of term 12, no payment
\* recorded
EscenarioSinPagos ==
    /\ llamada = "paridad"
    /\ fecha = Fecha(2023, 5, 15)
    /\ creditos[1].plazo = 12
    /\ creditos_pagos = <<>>

\* the scenario's results, but for days_without_payment
EscenarioResto ==
    /\ series.pagos_req[1] = Some(4)
    /\ series.monto_req[1] = Some(4000)
    /\ series.monto_pag[1] = Some(0)
    /\ series.estatus_series[1] = Some("Atrasado")
    /\ series.atraso_series[1] = Some(4)
    /\ retorno[1] = "PAR 120"

\* C10 as stated: the scenario yields required_installments 4, required_amount
\* 4000, paid_amount 0, status Delinquent, days_without_payment 135,
\* arrears_count 4 and bucket PAR 120.
C10_Original ==
    EscenarioSinPagos => EscenarioResto /\ series.dias_sin_pago[1] = Some(135)

\* C10 (amended): the scenario yields required_installments 4,
\* required_amount 4000, paid_amount 0, status Delinquent,
\* days_without_payment 134 (the days from 2023-01-01 to 2023-05-15, no
\* grace), arrears_count 4 and bucket PAR 120.
C10_Escenario ==
    EscenarioSinPagos => EscenarioResto /\ series.dias_sin_pago[1] = Some(134)

C10_Witness ==
    /\ EscenarioSinPagos
    /\ series.fecha_ult_pago[1] = NA
    /\ series.dias_sin_pago[1] = Some(fecha - creditos[1].fecha_apertura)
    /\ retorno[1] = "PAR 120"

----------------------------------------------------------------------------
(* SpecVentana: one credit opened on the first, the 15th or the last day   *)
(* of a month, never closed or closed on such a day, and one call of       *)
(* considerar at any day of HorizonteVentana days from 2024-01-01.         *)

HorizonteVentana == 120

InicioVentana == Fecha(2024, 1, 1)

FechasVentana == InicioVentana..(InicioVentana + HorizonteVentana)

\* the first, the 15th and the last day of month m of 2024
DiasClave(m) ==
    {Fecha(2024, m, 1), Fecha(2024, m, 15), MonthEnd0(Fecha(2024, m, 1))}

InitVentana ==
    /\ \E a \in DiasClave(1) \cup DiasClave(2) \cup DiasClave(3),
          c \in {NA} \cup {Some(d) : d \in DiasClave(1) \cup DiasClave(2)
                                          \cup DiasClave(3) \cup DiasClave(4)} :
          creditos = [i \in {1} |-> Credito(a, a + 31, 12, 1000, 5000, c)]
    /\ creditos_pagos = <<>>
    /\ series = SinSeries(creditos)
    /\ SinLlamada

NextVentana ==
    /\ llamada = "ninguna"
    /\ \E f \in FechasVentana : Considerar(f)

SpecVentana == InitVentana /\ [][NextVentana]_vars

\* the calendar month of a date, counted in months
MesDe(f) == Year(f) * 12 + Month(f)

\* C7 as stated: considerar keeps a credit iff the month of as_of is strictly
\* after the month of open_date and, when close_date is present, strictly
\* before the month of close_date; so a credit closed on any day of the
\* month of as_of is excluded.
C7_Original ==
    llamada = "considerar" =>
        \A i \in DOMAIN creditos :
            i \in retorno <=>
                /\ MesDe(fecha) > MesDe(creditos[i].fecha_apertura)
                /\ notnull(creditos[i].fecha_cierre) =>
                      MesDe(fecha) < MesDe(Val(creditos[i].fecha_cierre))

\* C7 (amended): considerar keeps a credit iff the month of as_of is strictly
\* after the month of open_date and the first day of the month of as_of is
\* strictly before close_date (an absent close_date counting as 2200-12-31);
\* so a credit closed on the first day of the month of as_of, or earlier, is
\* excluded, one closed on a later day of that month is kept, and a credit
\* opened in the month of as_of is excluded.
C7_VentanaDeReporte ==
    llamada = "considerar" =>
        \A i \in DOMAIN creditos :
            i \in retorno <=>
                /\ MesDe(fecha) > MesDe(creditos[i].fecha_apertura)
                /\ fecha - Day(fecha) + 1 <
                      (IF notnull(creditos[i].fecha_cierre)
                       THEN Val(creditos[i].fecha_cierre) ELSE Fecha(2200, 12, 31))

\* a credit closed in the middle of the month of as_of is kept
C7_Witness ==
    /\ llamada = "considerar"
    /\ notnull(creditos[1].fecha_cierre)
    /\ MesDe(Val(creditos[1].fecha_cierre)) = MesDe(fecha)
    /\ Day(Val(creditos[1].fecha_cierre)) = 15
    /\ 1 \in retorno

====
